---- MODULE Spec2Model ----
(***************************************************************************)
(* A model of gevent's Greenlet (greenlet.py) and GreenletSet/Pool          *)
(* (pool.py): the task lifecycle, the link registry and its dispatcher,     *)
(* the hub's event queue, and the pool's bounded admission.                 *)
(*                                                                          *)
(* Execution is single-threaded and cooperative: exactly one of the hub,    *)
(* the main greenlet or a task runs at a time (variable cur).  The hub      *)
(* dispatches its active events in FIFO order (hubq); timers (timers) and   *)
(* wake-ups of sleeping greenlets fire in any order.                        *)
(***************************************************************************)
EXTENDS Integers, Sequences, FiniteSets, TLC

\* ---------------------------------------------------------------- bounds
\* tasks the API actions are called on
NT == 2
\* API calls made in a run
MaxOps == 3
\* largest pool size
MaxSize == 2
\* the pool size of the bounded-admission scenario, which spawns one task more
ScenSize == 2

ApiTasks == 1..NT
Tasks == 1..(IF NT > ScenSize THEN NT ELSE ScenSize + 1)

\* ------------------------------------------------------- names of things
\* greenlets and link targets are numbers: a task is its own number, a user
\* callable is CB, the pool's bound method discard is DISCARD, the main
\* greenlet is MAIN and the hub is HUB; MAIN_SWITCH is the bound method
\* switch of the main greenlet, which get and join register as a raw link,
\* and PUT the bound method put of the queue of a joinall call
CB == 0
DISCARD == -1
MAIN == -2
HUB == -3
MAIN_SWITCH == -4
PUT == -5
Targets == Tasks \cup {CB, DISCARD, MAIN, MAIN_SWITCH, PUT}

\* the sentinel _NONE of greenlet.py ("Greenlet didn't even start")
NONE_ == "_NONE"
\* the exceptions kill/throw are called with: the class GreenletExit (kill's
\* default), and an instance of some other exception
KillArgs == {"GreenletExit", "Error"}

VARIABLES
  G,          \* G[t]: the fields of Greenlet object t (and its history variables)
  hubq,       \* the hub's active events, FIFO
  timers,     \* tasks whose start_later timer is pending
  cur,        \* the greenlet that is running: HUB, MAIN or a task
  draining,   \* the task whose _notify_links the hub is inside of, 0 when none
  mainpc,     \* what the main greenlet is suspended in ("run" when it is not)
  ops,        \* number of API calls made so far
  greenlets,  \* Pool.greenlets
  dying,      \* Pool.dying
  empty_event,\* Pool._empty_event is set
  size,       \* Pool.size
  counter,    \* free permits of Pool._semaphore
  rt          \* history: the last link registration, for the register/unlink round trip

vars == <<G, hubq, timers, cur, draining, mainpc, ops,
          greenlets, dying, empty_event, size, counter, rt>>
poolvars == <<greenlets, dying, empty_event, size, counter>>

\* ------------------------------------------------------------ Greenlet
\* Greenlet.__init__: no links, no value, _exception the sentinel, no notifier,
\* no start event; run is TRUE while _run/args/kwargs are in the object's dict
NewGreenlet ==
  [ started |-> FALSE, dead |-> FALSE,
    value |-> "None", exc |-> NONE_,
    notifier |-> FALSE, start_event |-> "None",
    links |-> {}, run |-> TRUE,
    \* history variables
    nstarts |-> 0,        \* calls of start/start_later that did not assert
    nruns |-> 0,          \* entries into run
    cause |-> "none",     \* what ended the task
    khit |-> "none",      \* what the last _kill event found
    scen |-> "none",      \* start() then kill() with the start event pending
    slept |-> FALSE,      \* the body has suspended once (blocking bodies)
    calls |-> [x \in Targets |-> 0],  \* invocations of the link since it was registered
    regd |-> {},          \* targets registered and not yet invoked or unlinked
    nonval |-> {},        \* greenlets link() or link_exception() was called for
    lthrown |-> {} ]      \* <<receiver, successful()>> of the LinkedExited thrown

ready(g) == g.dead \/ g.exc # NONE_

successful(g) == g.exc = "None"

exception(g) == IF g.exc # NONE_ THEN g.exc ELSE "None"

\* Greenlet.get on a task that is ready: the value, or the stored exception
\* re-raised; on one that is not, the caller waits
get(g) ==
  IF ready(g)
  THEN IF successful(g) THEN <<"return", g.value>> ELSE <<"raise", g.exc>>
  ELSE <<"wait", "">>

\* the state of the program the operators below transform
World == [G |-> G, hubq |-> hubq, timers |-> timers, cur |-> cur]

Commit(w) ==
  /\ G' = w.G
  /\ hubq' = w.hubq
  /\ timers' = w.timers
  /\ cur' = w.cur

\* an active event: the callback (op) and its arguments, a greenlet (g) and
\* an exception (exc).  The events of killall have a list of greenlets
\* (lst); while the hub is inside one (busy), g is the greenlet its throw
\* has switched into and hard the diehards found so far
Ev(op, t, e) == [op |-> op, g |-> t, exc |-> e, lst |-> <<>>, hard |-> {}, busy |-> FALSE]

\* core.active_event: the callback runs after the events already queued
active_event(w, ev) == [w EXCEPT !.hubq = Append(@, ev)]

\* handle.cancel() of a start event: the pending switch of t is dropped
RemoveEv(q, ev) == SelectSeq(q, LAMBDA e : e # ev)

cancel_start(w, t) ==
  [w EXCEPT !.hubq = RemoveEv(@, Ev("switch", t, "None")),
            !.timers = @ \ {t}]

\* (mutant) a termination that schedules no notification
schedule_notify_never(w, t) == w

\* "if self._links and self._notifier is None: self._notifier = active_event(...)"
schedule_notify(w, t) ==
  IF w.G[t].links # {} /\ ~w.G[t].notifier
  THEN active_event([w EXCEPT !.G[t].notifier = TRUE], Ev("_notify_links", t, "None"))
  ELSE w

_report_result(w, t, result) ==
  schedule_notify([w EXCEPT !.G[t].exc = "None", !.G[t].value = result], t)

_report_error(w, t, e) ==
  schedule_notify([w EXCEPT !.G[t].exc = e], t)

\* the finally clause of run, and the coroutine returning to its parent, the hub
run_finally(w, t) ==
  [w EXCEPT !.G[t].run = FALSE, !.G[t].dead = TRUE, !.cur = HUB]

\* (mutant) run without its "except GreenletExit" clause
run_end_no_exit_clause(w, t, how, e) ==
  IF how = "return"
  THEN run_finally(_report_result([w EXCEPT !.G[t].cause = "return"], t, e), t)
  ELSE run_finally(_report_error([w EXCEPT !.G[t].cause = how], t, e), t)

\* how _run ends: "return" with a value, "exit" raising GreenletExit, "error"
\* raising another exception e
run_end(w, t, how, e) ==
  CASE how = "return" -> run_finally(_report_result([w EXCEPT !.G[t].cause = "return"], t, e), t)
    [] how = "exit" -> run_finally(_report_result([w EXCEPT !.G[t].cause = "exit"], t, "GreenletExit()"), t)
    [] OTHER -> run_finally(_report_error([w EXCEPT !.G[t].cause = "error"], t, e), t)

IsExit(e) == e \in {"GreenletExit", "GreenletExit()"}

\* the instance an exception argument stands for once raised
Raised(e) == IF e = "GreenletExit" THEN "GreenletExit()" ELSE e

\* (mutant) throw without its "if not self.dead" test
throw_without_dead_test(w, t, e, react) ==
  schedule_notify([w EXCEPT !.G[t].exc = e, !.G[t].dead = TRUE, !.G[t].start_event = "None"], t)

\* Greenlet.throw, called in the hub (or by the running task on itself).  react
\* is what the body of the task does with the exception raised at the point
\* it is suspended at: "propagate" lets it out of _run, "catch" handles it and
\* goes on running.
throw(w, t, e, react) ==
  LET w1 == IF w.G[t].start_event # "None"
            THEN [cancel_start(w, t) EXCEPT !.G[t].start_event = "None"]
            ELSE w
  IN IF w1.G[t].dead THEN w1
     ELSE IF w1.G[t].started
     THEN IF react = "catch"
          THEN [w1 EXCEPT !.cur = t]
          ELSE [run_end(w1, t, IF IsExit(e) THEN "exit" ELSE "error", Raised(e))
                  EXCEPT !.cur = IF w.cur = t THEN HUB ELSE w.cur]
     ELSE \* not yet started: _report_error is not executed
          schedule_notify([w1 EXCEPT !.G[t].exc = e, !.G[t].dead = TRUE,
                                     !.G[t].cause = IF IsExit(e) THEN "exit" ELSE "error"], t)


\* ------------------------------------------------------------- link set
\* A link is [cls, target].  SpawnedLink and GreenletLink hash and compare by
\* the callable or greenlet they wrap, and a bare callable compares equal to
\* its wrapper, so the set is keyed by target.
LinkClasses == {"raw", "SpawnedLink", "SuccessSpawnedLink", "FailureSpawnedLink",
                "GreenletLink", "SuccessGreenletLink", "FailureGreenletLink"}

Lnk(cls, target) == [cls |-> cls, target |-> target]

TargetsOf(S) == {l.target : l \in S}

\* set.add: an element equal to one already present is not added
set_add(S, l) == IF l.target \in TargetsOf(S) THEN S ELSE S \cup {l}

\* (mutant) links that compare by identity: only the bare target is removed
set_discard_identity(S, target) == S \ {[cls |-> "raw", target |-> target]}

\* set.discard: removes the element equal to the argument
set_discard(S, target) == {l \in S : l.target # target}

\* registration bookkeeping (history): a link that enters the set is a new
\* registration
NoteLink(g, l) ==
  IF l.cls \in {"GreenletLink", "FailureGreenletLink"}
  THEN [g EXCEPT !.nonval = @ \cup {l.target}] ELSE g

Register(g, l) ==
  LET g0 == NoteLink(g, l)
  IN IF l.target \in TargetsOf(g.links) THEN g0
     ELSE [g0 EXCEPT !.calls[l.target] = 0, !.regd = @ \cup {l.target}]

\* (mutant) rawlink that schedules _notify_links without looking at _notifier
rawlink_always_schedules(w, t, l) ==
  LET g1 == [Register(w.G[t], l) EXCEPT !.links = set_add(@, l)]
      w1 == [w EXCEPT !.G[t] = g1]
  IN IF ready(g1)
     THEN active_event([w1 EXCEPT !.G[t].notifier = TRUE], Ev("_notify_links", t, "None"))
     ELSE w1

rawlink(w, t, l) ==
  LET g1 == [Register(w.G[t], l) EXCEPT !.links = set_add(@, l)]
      w1 == [w EXCEPT !.G[t] = g1]
  IN IF ready(g1) /\ ~g1.notifier
     THEN active_event([w1 EXCEPT !.G[t].notifier = TRUE], Ev("_notify_links", t, "None"))
     ELSE w1

unlink(w, t, target) ==
  [w EXCEPT !.G[t].links = set_discard(@, target), !.G[t].regd = @ \ {target}]

\* the wrapper link() makes for a receiver: policy is "" for link, "Success"
\* for link_value, "Failure" for link_exception
Wrapper(policy, receiver) ==
  IF receiver \in Tasks THEN Lnk(policy \o "GreenletLink", receiver)
  ELSE Lnk(policy \o "SpawnedLink", receiver)

\* (mutant) a link that does not test successful()
Fires_any_outcome(l, src) == TRUE

\* the policy test of Success*/Failure* links' __call__
Fires(l, src) ==
  \/ l.cls \in {"raw", "SpawnedLink", "GreenletLink"}
  \/ l.cls \in {"SuccessSpawnedLink", "SuccessGreenletLink"} /\ successful(src)
  \/ l.cls \in {"FailureSpawnedLink", "FailureGreenletLink"} /\ ~successful(src)

IsGreenletLink(l) == l.cls \in {"GreenletLink", "SuccessGreenletLink", "FailureGreenletLink"}

\* the LinkedExited subclass GreenletLink.__call__ raises
LinkedError(src) ==
  IF successful(src)
  THEN IF src.value = "GreenletExit()" THEN "LinkedKilled" ELSE "LinkedCompleted"
  ELSE "LinkedFailed"

\* history: GreenletLink.__call__ of a link of t raises its error in r
Thrown(w, t, r) == [w EXCEPT !.G[t].lthrown = @ \cup {<<r, successful(w.G[t])>>}]

Reacts == {"propagate", "catch"}

\* the orders a set can be iterated in
Orders(S) == {f \in [1..Cardinality(S) -> S] : \A i, j \in DOMAIN f : f[i] = f[j] => i = j}

\* ------------------------------------------------------- callers of the API
\* API calls are made by whoever runs: the main greenlet, a task's body, or
\* a link callback the hub is inside of
Caller ==
  \/ cur = MAIN
  \/ cur \in Tasks
  \/ cur = HUB /\ draining # 0

\* at most MaxOps API calls are made in a run
CanCall == Caller /\ ops < MaxOps

NoEventFor(q, t) == \A i \in 1..Len(q) : q[i].g # t

RtIdle == [st |-> "idle", t |-> 0, target |-> 0, before |-> 0, after |-> 0,
           had |-> FALSE, indrain |-> FALSE]

\* history: a registration of target on t is made
RtReg(t, target) ==
  [st |-> "reg", t |-> t, target |-> target,
   before |-> Cardinality(G[t].links), after |-> 0,
   had |-> target \in TargetsOf(G[t].links), indrain |-> draining = t]

\* history: any other use of the link set of t ends a round trip on t
RtTouch(t) == IF rt.st = "reg" /\ rt.t = t THEN RtIdle ELSE rt

\* Greenlet.start: the assertion, then the start event.  When the assertion
\* fails (AssertionError: Greenlet already started) nothing changes.
start(w, t) ==
  IF w.G[t].start_event = "None"
  THEN active_event([w EXCEPT !.G[t].start_event = "active",
                              !.G[t].nstarts = @ + 1,
                              !.G[t].scen = IF w.G[t] = NewGreenlet /\ NoEventFor(w.hubq, t)
                                            THEN "started" ELSE "none"],
                    Ev("switch", t, "None"))
  ELSE w

Start(t) ==
  /\ CanCall
  /\ ops' = ops + 1
  /\ Commit(start(World, t))
  /\ UNCHANGED <<draining, mainpc, poolvars, rt>>

\* Greenlet.start_later
StartLater(t) ==
  /\ CanCall
  /\ ops' = ops + 1
  /\ IF G[t].start_event = "None"
     THEN /\ G' = [G EXCEPT ![t].start_event = "timer",
                            ![t].nstarts = @ + 1,
                            ![t].scen = "none"]
          /\ timers' = timers \cup {t}
     ELSE UNCHANGED <<G, timers>>
  /\ UNCHANGED <<hubq, cur, draining, mainpc, poolvars, rt>>

\* Greenlet.kill(exception=e, block=False)
kill(w, t, e) ==
  IF ~w.G[t].dead THEN active_event(w, Ev("_kill", t, e)) ELSE w

Kill(t, e) ==
  /\ CanCall
  /\ ops' = ops + 1
  /\ LET scen == IF /\ G[t].scen = "started"
                    /\ e = "GreenletExit"
                    /\ \E i \in 1..Len(hubq) : hubq[i] = Ev("switch", t, "None")
                 THEN "startkill" ELSE "none"
     IN Commit(kill([World EXCEPT !.G[t].scen = scen], t, e))
  /\ UNCHANGED <<draining, mainpc, poolvars, rt>>

\* Greenlet.rawlink(callback) with a user callable
Rawlink(t, c) ==
  /\ CanCall
  /\ ops' = ops + 1
  /\ Commit(rawlink(World, t, Lnk("raw", c)))
  /\ rt' = RtReg(t, c)
  /\ UNCHANGED <<draining, mainpc, poolvars>>

\* Greenlet.link / link_value / link_exception (by policy) with receiver r;
\* receiver None is the running task itself.  When the receiver is the
\* running task and t is ready the link is called at once, and raises in the
\* running task: react is what its body does with the LinkedExited.
Link(t, r, policy, react) ==
  /\ CanCall
  /\ ops' = ops + 1
  /\ r # t
  /\ LET l == Wrapper(policy, r)
         w0 == IF r \in Tasks THEN [World EXCEPT !.G[r].scen = "none"] ELSE World
     IN IF r = cur /\ ready(G[t])
        THEN /\ IF Fires(l, G[t])
                THEN Commit(throw(Thrown([w0 EXCEPT !.G[t] = NoteLink(@, l)], t, r),
                                  r, LinkedError(G[t]), react))
                ELSE Commit(w0)
             /\ rt' = RtTouch(t)
        ELSE /\ Commit(rawlink(w0, t, l))
             /\ rt' = RtReg(t, r)
  /\ UNCHANGED <<draining, mainpc, poolvars>>

\* Greenlet.unlink(receiver)
Unlink(t, r) ==
  /\ CanCall
  /\ ops' = ops + 1
  /\ Commit(unlink(World, t, r))
  /\ rt' = IF rt.st = "reg" /\ rt.t = t /\ rt.target = r
           THEN [rt EXCEPT !.st = "done",
                           !.after = Cardinality(unlink(World, t, r).G[t].links)]
           ELSE RtTouch(t)
  /\ UNCHANGED <<draining, mainpc, poolvars>>

\* ------------------------------------------------------------------ the hub
\* where the main greenlet is: "run" while it runs, else what it is suspended
\* in, with the call it is in the middle of
\* own, outer: a Timeout of the call itself, and one the caller had started
\* before, are pending; via, val: how the last call ended and with what
\* S, re, q, left, got: the arguments, the queue and the loop of joinall;
\* fails, note: the admission call waiting in acquire is one whose
\* construction of the task raises, and one whose outcome is recorded;
\* all: the greenlets of the list given to killall
MainAt(at) == [at |-> at, op |-> "", g |-> 0, pol |-> "", val |-> "",
               own |-> FALSE, outer |-> FALSE, via |-> "",
               S |-> {}, re |-> FALSE, q |-> <<>>, left |-> 0, got |-> {},
               fails |-> FALSE, note |-> FALSE, all |-> {}]

\* the hub is inside the loop of _killall or _killall3
InKillall == hubq # <<>> /\ Head(hubq).busy

HubIdle == cur = HUB /\ draining = 0 /\ ~InKillall

\* the hub switches into t: a first switch enters run, which clears
\* _start_event; a switch into a suspended task resumes it; a switch into a
\* dead task returns at once
switch(w, t) ==
  IF w.G[t].dead THEN w
  ELSE IF ~w.G[t].started
  THEN [w EXCEPT !.G[t].started = TRUE, !.G[t].start_event = "None", !.cur = t,
                 !.G[t].nruns = @ + 1]
  ELSE [w EXCEPT !.cur = t]

\* the head event is a start event
DispatchSwitch ==
  /\ HubIdle
  /\ hubq # <<>>
  /\ Head(hubq).op = "switch"
  /\ Commit(switch([World EXCEPT !.hubq = Tail(@)], Head(hubq).g))
  /\ UNCHANGED <<draining, mainpc, ops, poolvars, rt>>

\* a start_later timer expires
FireTimer(t) ==
  /\ HubIdle
  /\ t \in timers
  /\ Commit(switch([World EXCEPT !.timers = @ \ {t}], t))
  /\ UNCHANGED <<draining, mainpc, ops, poolvars, rt>>

\* what the throw of a _kill event finds (history)
KillFinds(g, react) ==
  IF g.dead THEN "dead"
  ELSE IF ~g.started THEN "unstarted"
  ELSE IF react = "catch" THEN "caught" ELSE "propagated"

\* _kill(greenlet, exception, waiter): throw, then waiter.switch(), which
\* wakes nobody when kill was not blocking
_kill(w, t, e, react) ==
  throw([w EXCEPT !.G[t].khit = KillFinds(w.G[t], react)], t, e, react)

DispatchKill(react) ==
  /\ HubIdle
  /\ hubq # <<>>
  /\ Head(hubq).op = "_kill"
  /\ Commit(_kill([World EXCEPT !.hubq = Tail(@)], Head(hubq).g, Head(hubq).exc, react))
  /\ UNCHANGED <<draining, mainpc, ops, poolvars, rt>>

\* the sleep of a suspended task ends: the hub switches into it
HubWake(t) ==
  /\ HubIdle
  /\ G[t].started /\ ~G[t].dead
  /\ cur' = t
  /\ UNCHANGED <<G, hubq, timers, draining, mainpc, ops, poolvars, rt>>

HubWakeMain ==
  /\ HubIdle
  /\ mainpc.at = "sleep"
  /\ cur' = MAIN
  /\ mainpc' = MainAt("run")
  /\ UNCHANGED <<G, hubq, timers, draining, ops, poolvars, rt>>

\* the main greenlet yields to the hub (sleeps)
MainYield ==
  /\ cur = MAIN
  /\ mainpc' = MainAt("sleep")
  /\ cur' = HUB
  /\ UNCHANGED <<G, hubq, timers, draining, ops, poolvars, rt>>

\* -------------------------------------------------------- a task's body
\* _run returns a result, raises GreenletExit, or raises another exception
Ends == {<<"return", "result">>, <<"exit", "GreenletExit()">>, <<"error", "Error">>}

TaskEnd(t, end) ==
  /\ cur = t
  /\ Commit(run_end(World, t, end[1], end[2]))
  /\ UNCHANGED <<draining, mainpc, ops, poolvars, rt>>

\* _run suspends: it switches to the hub (sleep)
TaskBlock(t) ==
  /\ cur = t
  /\ cur' = HUB
  /\ UNCHANGED <<G, hubq, timers, draining, mainpc, ops, poolvars, rt>>

\* ------------------------------------------------------- GreenletSet, Pool
PoolState == [greenlets |-> greenlets, dying |-> dying,
              empty_event |-> empty_event, counter |-> counter]

CommitPool(p) ==
  /\ greenlets' = p.greenlets
  /\ dying' = p.dying
  /\ empty_event' = p.empty_event
  /\ counter' = p.counter
  /\ size' = size

\* size of a GreenletSet and of Pool(size=None): no size
NOSIZE == -1

\* a Pool with a size has a Semaphore; a GreenletSet has none and a Pool
\* without size a DummySemaphore, whose acquire and release do nothing
Bounded == size # NOSIZE

\* Semaphore.release
release(p) == IF Bounded THEN [p EXCEPT !.counter = @ + 1] ELSE p

\* (mutant) a discard that leaves the task in dying
set_discard_keeps_dying(p, t) ==
  LET gs == p.greenlets \ {t}
  IN [p EXCEPT !.greenlets = gs, !.empty_event = IF gs = {} THEN TRUE ELSE @]

\* GreenletSet.discard
set_discard_greenlet(p, t) ==
  LET gs == p.greenlets \ {t}
  IN [p EXCEPT !.greenlets = gs, !.dying = @ \ {t},
               !.empty_event = IF gs = {} THEN TRUE ELSE @]

\* a discard that returns no permit
discard_no_release(p, t) == set_discard_greenlet(p, t)

\* Pool.discard
discard(p, t) == release(set_discard_greenlet(p, t))

\* GreenletSet.add: the pool part (the rawlink of discard is add_link)
add(p, t) == [p EXCEPT !.greenlets = @ \cup {t}, !.empty_event = FALSE]

add_link(w, t) == rawlink(w, t, Lnk("raw", DISCARD))

\* Pool.free_count
free_count ==
  IF ~Bounded THEN 1
  ELSE IF size - Cardinality(greenlets) > 0 THEN size - Cardinality(greenlets) ELSE 0

\* --------------------------------------------------------- get and join
\* how a call of get or join ends (via): "ready" the task was ready at the
\* call, "link" the caller was resumed by the raw link, "own" the call's own
\* Timeout expired, "outer" a Timeout the caller had started before expired,
\* "noblock" get(block=False) on a task that is not ready

\* Greenlet.get: what it returns or raises
get_outcome(g, via) ==
  CASE via \in {"ready", "link"} -> get(g)
    [] via = "outer" -> <<"raise", "OuterTimeout">>
    [] OTHER -> <<"raise", "Timeout">>

\* (mutant) a join that lets its own Timeout out
join_outcome_raises_own(g, via) ==
  CASE via = "outer" -> <<"raise", "OuterTimeout">>
    [] via = "own" -> <<"raise", "Timeout">>
    [] OTHER -> <<"return", "None">>

\* Greenlet.join: None, except that a Timeout that is not its own is raised
join_outcome(g, via) ==
  IF via = "outer" THEN <<"raise", "OuterTimeout">> ELSE <<"return", "None">>

\* the main greenlet is back from the call
Finished(op, t, via, g) ==
  LET out == IF op = "get" THEN get_outcome(g, via) ELSE join_outcome(g, via)
  IN [MainAt("run") EXCEPT !.op = op, !.g = t, !.via = via,
                           !.pol = out[1], !.val = out[2]]

WaitOps == {"get", "join"}

\* t.get(timeout) / t.join(timeout) called by the main greenlet: own says
\* whether a timeout was given, outer whether the caller runs under a Timeout
MainWait(op, t, own, outer) ==
  /\ cur = MAIN
  /\ ops < MaxOps
  /\ ops' = ops + 1
  /\ IF ready(G[t])
     THEN /\ mainpc' = Finished(op, t, "ready", G[t])
          /\ UNCHANGED <<G, hubq, timers, cur>>
     ELSE /\ Commit([rawlink(World, t, Lnk("raw", MAIN_SWITCH)) EXCEPT !.cur = HUB])
          /\ mainpc' = [MainAt("wait") EXCEPT !.op = op, !.g = t,
                                              !.own = own, !.outer = outer]
  /\ UNCHANGED <<draining, poolvars, rt>>

\* t.get(block=False)
MainGetNoBlock(t) ==
  /\ cur = MAIN
  /\ ops < MaxOps
  /\ ops' = ops + 1
  /\ mainpc' = Finished("get", t, IF ready(G[t]) THEN "ready" ELSE "noblock", G[t])
  /\ UNCHANGED <<G, hubq, timers, cur, draining, poolvars, rt>>

\* (mutant) except clauses that leave the link where it is
wait_except_keeps_link(w, t) == w

\* the except clauses of get and join: self.unlink(switch)
wait_except(w, t) == unlink(w, t, MAIN_SWITCH)

\* a Timeout expires while the main greenlet waits: it is raised in get or
\* join, which unlinks its switch
WaitTimeout(which) ==
  /\ HubIdle
  /\ mainpc.at = "wait"
  /\ IF which = "own" THEN mainpc.own ELSE mainpc.outer
  /\ Commit([wait_except(World, mainpc.g) EXCEPT !.cur = MAIN])
  /\ mainpc' = Finished(mainpc.op, mainpc.g, which, G[mainpc.g])
  /\ UNCHANGED <<draining, ops, poolvars, rt>>

\* ---------------------------------------------------------------- joinall
\* (mutant) a loop that never looks at raise_error
joinall_raises_never(pc, g) == FALSE

\* the test of the loop of joinall on the task it has dequeued
joinall_raises(pc, g) == pc.re /\ ~successful(g)

\* the loop of joinall from where it is: it takes what the queue holds and
\* ends by returning (via "done"), by raising (via "raise"), or waits in
\* queue.get() again
RECURSIVE joinall_loop(_, _)
joinall_loop(pc, GG) ==
  IF pc.left = 0
  THEN [pc EXCEPT !.at = "run", !.via = "done", !.pol = "return", !.val = "None"]
  ELSE IF pc.q = <<>> THEN [pc EXCEPT !.at = "joinall"]
  ELSE LET t == Head(pc.q)
           pc1 == [pc EXCEPT !.q = Tail(@), !.left = @ - 1, !.got = @ \cup {t}, !.g = t]
       IN IF joinall_raises(pc1, GG[t])
          THEN [pc1 EXCEPT !.at = "run", !.via = "raise", !.pol = "raise",
                           !.val = exception(GG[t])]
          ELSE joinall_loop(pc1, GG)

RECURSIVE rawlink_each(_, _, _)
rawlink_each(w, order, target) ==
  IF order = <<>> THEN w
  ELSE rawlink_each(rawlink(w, Head(order), Lnk("raw", target)), Tail(order), target)

RECURSIVE unlink_each(_, _, _)
unlink_each(w, S, target) ==
  IF S = {} THEN w
  ELSE LET t == CHOOSE x \in S : TRUE
       IN unlink_each(unlink(w, t, target), S \ {t}, target)

\* (mutant) an except clause that leaves put linked
joinall_except_keeps_put(w, S) == w

\* the except clause of joinall: "for greenlet in greenlets: greenlet.unlink(put)"
joinall_except(w, S) == unlink_each(w, S, PUT)

\* joinall(greenlets, timeout, raise_error=re) called by the main greenlet
\* (own: a timeout is given; outer: the caller runs under a Timeout of its
\* own): put is linked to each task in the order of the list, then the loop
\* starts and, with tasks to wait for, blocks in queue.get()
JoinallCall(S, re, own, outer) ==
  /\ cur = MAIN
  /\ ops < MaxOps
  /\ ops' = ops + 1
  /\ LET pc == joinall_loop([MainAt("run") EXCEPT !.op = "joinall", !.S = S, !.re = re,
                                                  !.left = Cardinality(S),
                                                  !.own = own, !.outer = outer], G)
     IN /\ mainpc' = pc
        /\ \E order \in Orders(S) :
             Commit([rawlink_each(World, order, PUT)
                       EXCEPT !.cur = IF pc.at = "run" THEN MAIN ELSE HUB])
  /\ UNCHANGED <<draining, poolvars, rt>>

\* joinall without timeout
MainJoinall(S, re) == JoinallCall(S, re, FALSE, FALSE)

\* joinall(lst) called by the main greenlet with a list, in which a task may
\* appear more than once: put is linked to the task of each position in
\* turn, and the loop takes len(lst) greenlets from the queue
JoinallList(lst) ==
  /\ cur = MAIN
  /\ ops < MaxOps
  /\ ops' = ops + 1
  /\ LET pc == joinall_loop([MainAt("run") EXCEPT !.op = "joinall",
                                                  !.S = {lst[i] : i \in DOMAIN lst},
                                                  !.left = Len(lst)], G)
     IN /\ mainpc' = pc
        /\ Commit([rawlink_each(World, lst, PUT)
                     EXCEPT !.cur = IF pc.at = "run" THEN MAIN ELSE HUB])
  /\ UNCHANGED <<draining, poolvars, rt>>

\* a Timeout expires while the main greenlet waits in queue.get(): the
\* except clause unlinks put and lets the exception out unless it is the
\* Timeout joinall has started
JoinallTimeout(which) ==
  /\ HubIdle
  /\ mainpc.at = "joinall"
  /\ IF which = "own" THEN mainpc.own ELSE mainpc.outer
  /\ Commit([joinall_except(World, mainpc.S) EXCEPT !.cur = MAIN])
  /\ mainpc' = [mainpc EXCEPT !.at = "run", !.via = which,
                              !.pol = IF which = "own" THEN "return" ELSE "raise",
                              !.val = IF which = "own" THEN "None" ELSE "OuterTimeout"]
  /\ UNCHANGED <<draining, ops, poolvars, rt>>

\* the hub switches into the main greenlet waiting in queue.get() once the
\* queue holds something; an exception raised in the loop unlinks put from
\* every task on its way out
JoinallWake ==
  /\ HubIdle
  /\ mainpc.at = "joinall"
  /\ mainpc.op # "setkill"
  /\ mainpc.q # <<>>
  /\ LET pc == joinall_loop(mainpc, G)
     IN /\ mainpc' = pc
        /\ Commit([(IF pc.via = "raise" THEN joinall_except(World, pc.S) ELSE World)
                      EXCEPT !.cur = IF pc.at = "run" THEN MAIN ELSE HUB])
  /\ UNCHANGED <<draining, ops, poolvars, rt>>

\* ---------------------------------------------------------------- killall
\* killall(greenlets, exception=e, block) called by the main greenlet,
\* without timeout.  Not blocking, it schedules _killall and returns;
\* blocking, it schedules _killall3 and waits on a Waiter, whatever the list
Killall(lst, e, block) ==
  /\ cur = MAIN
  /\ ops < MaxOps
  /\ ops' = ops + 1
  /\ LET S == {lst[i] : i \in DOMAIN lst}
         ev == [Ev(IF block THEN "_killall3" ELSE "_killall", 0, e) EXCEPT !.lst = lst]
     IN /\ hubq' = Append(hubq, ev)
        /\ IF block
           THEN /\ mainpc' = [MainAt("killall") EXCEPT !.op = "killall", !.pol = "block",
                                                       !.S = S, !.all = S]
                /\ cur' = HUB
           ELSE /\ mainpc' = [MainAt("run") EXCEPT !.op = "killall", !.pol = "noblock",
                                                   !.S = S, !.all = S, !.via = "ready"]
                /\ cur' = cur
  /\ UNCHANGED <<G, timers, draining, poolvars, rt>>

\* (mutant) a loop that appends no greenlet to diehards
diehards_never_appended(ev, GG) == ev.hard

\* the greenlets waiter.switch(diehards) hands to the caller of killall
diehards(ev, GG) ==
  IF ev.op = "_killall3" /\ ev.g # 0 /\ ~GG[ev.g].dead THEN ev.hard \cup {ev.g} ELSE ev.hard

\* the hub runs _killall or _killall3, one greenlet of the list at a step: a
\* greenlet that is not dead is thrown into; one that catches the exception
\* runs until it switches back to the hub, and the loop goes on from there.
\* At the end of its list _killall3 switches to the waiter, and the caller
\* of killall returns when there is no diehard and calls joinall otherwise
KillallStep(react) ==
  /\ cur = HUB
  /\ draining = 0
  /\ hubq # <<>>
  /\ Head(hubq).op \in {"_killall", "_killall3"}
  /\ LET ev == Head(hubq)
         hard == diehards(ev, G)
         w0 == [World EXCEPT !.hubq = Tail(@)]
     IN IF ev.lst # <<>>
        THEN LET t == Head(ev.lst)
                 ev1 == [ev EXCEPT !.lst = Tail(@), !.hard = hard, !.busy = TRUE,
                                   !.g = IF G[t].dead THEN 0 ELSE t]
                 w1 == [w0 EXCEPT !.hubq = <<ev1>> \o @]
             IN /\ Commit(IF G[t].dead THEN w1 ELSE throw(w1, t, ev.exc, react))
                /\ mainpc' = mainpc
        ELSE IF ev.op = "_killall"
        THEN Commit(w0) /\ mainpc' = mainpc
        ELSE IF hard = {}
        THEN /\ Commit([w0 EXCEPT !.cur = MAIN])
             /\ mainpc' = [mainpc EXCEPT !.at = "run", !.via = "waiter"]
        ELSE LET pc == joinall_loop([mainpc EXCEPT !.S = hard, !.re = FALSE,
                                                  !.left = Cardinality(hard)], G)
             IN /\ mainpc' = pc
                /\ \E order \in Orders(hard) :
                     Commit([rawlink_each(w0, order, PUT)
                               EXCEPT !.cur = IF pc.at = "run" THEN MAIN ELSE HUB])
  /\ UNCHANGED <<draining, ops, poolvars, rt>>

\* ------------------------------------ exceptions raised in a waiting caller
\* the main greenlet links itself to t (t.link() with no receiver).  On a
\* task that is ready the LinkedExited is raised at once in the caller, whose
\* body catches it or dies of it
MainLink(t, react) ==
  /\ cur = MAIN
  /\ ops < MaxOps
  /\ ops' = ops + 1
  /\ IF ready(G[t])
     THEN /\ Commit([Thrown(World, t, MAIN) EXCEPT !.cur = IF react = "catch" THEN MAIN ELSE HUB])
          /\ mainpc' = MainAt(IF react = "catch" THEN "run" ELSE "dead")
     ELSE /\ Commit(rawlink(World, t, Lnk("GreenletLink", MAIN)))
          /\ mainpc' = mainpc
  /\ UNCHANGED <<draining, poolvars, rt>>

\* an exception e is raised in the main greenlet where it is suspended: get
\* and join unlink the switch they had linked and joinall unlinks put from
\* every task, then the exception goes on to the caller's body, which
\* catches it (react "catch") or dies of it.  [w, pc]
main_thrown(w, pc, e, react) ==
  LET w1 == CASE pc.at = "wait" -> wait_except(w, pc.g)
              [] pc.at = "joinall" -> joinall_except(w, pc.S)
              [] OTHER -> w
      at == IF react = "catch" THEN "run" ELSE "dead"
      pc1 == IF pc.at \in {"wait", "joinall"}
             THEN [pc EXCEPT !.at = at, !.via = "thrown", !.pol = "raise", !.val = e,
                             !.own = FALSE, !.outer = FALSE]
             ELSE MainAt(at)
  IN [w |-> [w1 EXCEPT !.cur = IF react = "catch" THEN MAIN ELSE w.cur], pc |-> pc1]

\* -------------------------------------------------------- _notify_links
NotifyBegin ==
  /\ HubIdle
  /\ hubq # <<>>
  /\ Head(hubq).op = "_notify_links"
  /\ hubq' = Tail(hubq)
  /\ draining' = Head(hubq).g
  /\ UNCHANGED <<G, timers, cur, mainpc, ops, poolvars, rt>>

Bump(n) == IF n < 2 THEN n + 1 ELSE n

\* (mutant) a loop that calls a link and leaves it in the set
PoppedNone(S, l) == {}

\* (mutant) the loop empties the set after its first call
PoppedAll(S, l) == S

\* the links one iteration of the loop takes out of the set
Popped(S, l) == {l}

\* one iteration of "while self._links": pop a link and call it.  A raw user
\* callable and a Spawned link run user code; discard is the pool's; a
\* GreenletLink throws LinkedExited into its greenlet (react: what that
\* greenlet's body does with it).  Whatever the call raises is caught.
NotifyStep(t, l, react) ==
  /\ cur = HUB
  /\ draining = t
  /\ l \in G[t].links
  /\ LET w1 == [World EXCEPT !.G[t].links = @ \ Popped(@, l),
                             !.G[t].calls[l.target] = Bump(@),
                             !.G[t].regd = @ \ {l.target}]
         src == G[t]
     IN CASE l.target = DISCARD ->
               /\ Commit(w1)
               /\ CommitPool(discard(PoolState, t))
               /\ mainpc' = mainpc
          [] IsGreenletLink(l) /\ Fires(l, src) /\ l.target \in Tasks ->
               /\ Commit(throw(Thrown(w1, t, l.target), l.target, LinkedError(src), react))
               /\ UNCHANGED <<poolvars, mainpc>>
          [] IsGreenletLink(l) /\ Fires(l, src) /\ l.target = MAIN /\ mainpc.at # "dead" ->
               \* the main greenlet is suspended: the exception is raised in it
               /\ LET r == main_thrown(Thrown(w1, t, MAIN), mainpc, LinkedError(src), react)
                  IN Commit(r.w) /\ mainpc' = r.pc
               /\ UNCHANGED poolvars
          [] l.target = MAIN_SWITCH /\ mainpc.at = "wait" ->
               \* switch(source) resumes the main greenlet inside get or join
               /\ Commit([w1 EXCEPT !.cur = MAIN])
               /\ mainpc' = Finished(mainpc.op, mainpc.g, "link", w1.G[mainpc.g])
               /\ UNCHANGED poolvars
          [] l.target = PUT /\ mainpc.at = "joinall" ->
               \* queue.put(source)
               /\ Commit(w1)
               /\ mainpc' = [mainpc EXCEPT !.q = Append(@, t)]
               /\ UNCHANGED poolvars
          [] OTHER ->
               /\ Commit(w1)
               /\ UNCHANGED <<poolvars, mainpc>>
  /\ rt' = RtTouch(t)
  /\ UNCHANGED <<draining, ops>>

\* the loop ends: "finally: self._notifier = None"
NotifyEnd ==
  /\ cur = HUB
  /\ draining # 0
  /\ G[draining].links = {}
  /\ G' = [G EXCEPT ![draining].notifier = FALSE]
  /\ draining' = 0
  /\ UNCHANGED <<hubq, timers, cur, mainpc, ops, poolvars, rt>>

\* ------------------------------------------------------ the pool's API
\* a task no call was made on yet: what a constructor call returns
Fresh(t) ==
  /\ G[t] = NewGreenlet
  /\ NoEventFor(hubq, t)
  /\ t \notin timers
  /\ t \notin greenlets
  /\ \A u \in Tasks : t \notin TargetsOf(G[u].links)

\* what spawn, spawn_link, spawn_link_value and spawn_link_exception link
\* the new task with: nothing, or the policy of the link to the caller
Policies == {"", "Success", "Failure"}

SpawnKinds == {"none"} \cup Policies

\* Pool.spawn / spawn_link*, after the permit was acquired: the task is
\* constructed and started, linked to the calling (main) greenlet, and added
admit_spawn(w, t, kind) ==
  LET w1 == start(w, t)
      w2 == IF kind = "none" THEN w1
            ELSE rawlink(w1, t, Lnk(kind \o "GreenletLink", MAIN))
  IN add_link(w2, t)

\* Pool.start, after the permit was acquired: add, then greenlet.start(),
\* whose AssertionError is raised to the caller with the permit kept
admit_start(w, t) == start(add_link(w, t), t)

Admit(w, op, t, kind) ==
  IF op = "spawn" THEN admit_spawn(w, t, kind) ELSE admit_start(w, t)

\* Semaphore.acquire with a free permit
acquire(p) == IF Bounded THEN [p EXCEPT !.counter = @ - 1] ELSE p

\* what an admission does once it has the permit: [w, p, raised].  In
\* spawn*, a constructor or spawn that raises (fails) is caught, the permit
\* released and the exception raised again; in start, add is inside the try
\* and greenlet.start() after it, so that its AssertionError is raised with
\* the task added and the permit kept
Admitted(w, p, op, t, kind, fails) ==
  IF op = "spawn" /\ fails
  THEN [w |-> w, p |-> release(acquire(p)), raised |-> TRUE]
  ELSE [w |-> Admit(w, op, t, kind), p |-> add(acquire(p), t),
        raised |-> op = "start" /\ add_link(w, t).G[t].start_event # "None"]

\* history: how the call ended, and whether it left the permits and the
\* members as they were
Noted(op, r) ==
  [MainAt("run") EXCEPT !.op = op, !.note = TRUE,
                        !.pol = IF r.raised THEN "raise" ELSE "return",
                        !.val = IF r.p.counter = counter /\ r.p.greenlets = greenlets
                                THEN "same" ELSE "changed"]

\* an admission call of the main greenlet: with a free permit it is admitted
\* at once, without one the caller is suspended in acquire
AdmissionCall(op, t, kind, fails, note) ==
  /\ cur = MAIN
  /\ ops' = ops + 1
  /\ IF ~Bounded \/ counter > 0
     THEN LET r == Admitted(World, PoolState, op, t, kind, fails)
          IN /\ Commit(r.w)
             /\ CommitPool(r.p)
             /\ mainpc' = IF note THEN Noted(op, r) ELSE mainpc
     ELSE /\ mainpc' = [MainAt("acquire") EXCEPT !.op = op, !.g = t, !.pol = kind,
                                                 !.fails = fails, !.note = note]
          /\ cur' = HUB
          /\ UNCHANGED <<G, hubq, timers, poolvars>>
  /\ UNCHANGED <<draining, rt>>

Admission(op, t, kind) == AdmissionCall(op, t, kind, FALSE, FALSE)

PoolSpawn(t, kind) == ops < MaxOps /\ Fresh(t) /\ Admission("spawn", t, kind)

PoolStart(t) == ops < MaxOps /\ Admission("start", t, "none")

\* admissions whose outcome is recorded; the construction of the task may fail
NotedSpawn(t, kind, fails) ==
  ops < MaxOps /\ Fresh(t) /\ AdmissionCall("spawn", t, kind, fails, TRUE)

NotedStart(t) == ops < MaxOps /\ AdmissionCall("start", t, "none", FALSE, TRUE)

\* a permit was released: the hub switches into the greenlet waiting in
\* acquire, which takes the permit and goes on with its admission
SemWake ==
  /\ HubIdle
  /\ mainpc.at = "acquire"
  /\ counter > 0
  /\ LET r == Admitted(World, PoolState, mainpc.op, mainpc.g, mainpc.pol, mainpc.fails)
     IN /\ Commit([r.w EXCEPT !.cur = MAIN])
        /\ CommitPool(r.p)
        /\ mainpc' = IF mainpc.note THEN Noted(mainpc.op, r) ELSE MainAt("run")
  /\ UNCHANGED <<draining, ops, rt>>

\* Pool.full
full == free_count <= 0

\* Pool.wait_available: Semaphore.wait returns at once when a permit is
\* free, and suspends the caller until one is released otherwise; it takes
\* no permit
WaitAvailable ==
  /\ cur = MAIN
  /\ ops < MaxOps
  /\ ops' = ops + 1
  /\ IF ~Bounded \/ counter > 0
     THEN /\ mainpc' = [MainAt("run") EXCEPT !.op = "wait_available", !.via = "ready"]
          /\ cur' = cur
     ELSE /\ mainpc' = MainAt("semwait")
          /\ cur' = HUB
  /\ UNCHANGED <<G, hubq, timers, draining, poolvars, rt>>

\* a permit was released: the greenlet waiting in Semaphore.wait is resumed
WaitWake ==
  /\ HubIdle
  /\ mainpc.at = "semwait"
  /\ counter > 0
  /\ cur' = MAIN
  /\ mainpc' = [MainAt("run") EXCEPT !.op = "wait_available", !.via = "release"]
  /\ UNCHANGED <<G, hubq, timers, draining, ops, poolvars, rt>>

\* GreenletSet.add, called directly
PoolAdd(t) ==
  /\ cur = MAIN
  /\ ops < MaxOps
  /\ ops' = ops + 1
  /\ Commit(add_link(World, t))
  /\ CommitPool(add(PoolState, t))
  /\ UNCHANGED <<draining, mainpc, rt>>

\* Pool.discard, called directly
PoolDiscard(t) ==
  /\ cur = MAIN
  /\ ops < MaxOps
  /\ ops' = ops + 1
  /\ CommitPool(discard(PoolState, t))
  /\ UNCHANGED <<G, hubq, timers, cur, draining, mainpc, rt>>

RECURSIVE kill_each(_, _, _)
kill_each(w, order, e) ==
  IF order = <<>> THEN w
  ELSE kill_each(kill(w, Head(order), e), Tail(order), e)

\* GreenletSet.kill(exception, block=False): one pass over the members that
\* are not dying
PoolKill(e) ==
  /\ cur = MAIN
  /\ ops < MaxOps
  /\ ops' = ops + 1
  /\ \E order \in Orders(greenlets \ dying) : Commit(kill_each(World, order, e))
  /\ dying' = dying \cup greenlets
  /\ UNCHANGED <<greenlets, empty_event, size, counter, draining, mainpc, rt>>

\* (mutant) a pass that kills without recording the members as dying
setkill_pass_forgets_dying(w, p, e, order) ==
  [w |-> [rawlink_each(kill_each(w, order, e), order, PUT) EXCEPT !.cur = HUB],
   p |-> p,
   pc |-> [MainAt("joinall") EXCEPT !.op = "setkill", !.pol = e, !.S = p.greenlets,
                                   !.left = Cardinality(p.greenlets)]]

\* one pass of the loop of GreenletSet.kill(exception, block=True) over the
\* members in the order the set iterates in: kill(block=False) for each
\* member that is not dying, all of them dying afterwards, then
\* joinall(self.greenlets), which links put to each member and waits in
\* queue.get().  [w, p, pc]; pc.pol keeps the exception while the call waits
setkill_pass(w, p, e, order) ==
  LET fresh == SelectSeq(order, LAMBDA t : t \notin p.dying)
      w1 == rawlink_each(kill_each(w, fresh, e), order, PUT)
  IN [w |-> [w1 EXCEPT !.cur = HUB],
      p |-> [p EXCEPT !.dying = @ \cup p.greenlets],
      pc |-> [MainAt("joinall") EXCEPT !.op = "setkill", !.pol = e, !.S = p.greenlets,
                                      !.left = Cardinality(p.greenlets)]]

\* the call has returned: "while self.greenlets" found the set empty
setkill_done == [MainAt("run") EXCEPT !.op = "setkill", !.via = "done", !.pol = "return"]

\* GreenletSet.kill(exception, block=True) without timeout, called by the
\* main greenlet
PoolKillBlock(e) ==
  /\ cur = MAIN
  /\ ops < MaxOps
  /\ ops' = ops + 1
  /\ IF greenlets = {}
     THEN /\ mainpc' = setkill_done
          /\ UNCHANGED <<G, hubq, timers, cur, poolvars>>
     ELSE \E order \in Orders(greenlets) :
            LET r == setkill_pass(World, PoolState, e, order)
            IN Commit(r.w) /\ CommitPool(r.p) /\ mainpc' = r.pc
  /\ UNCHANGED <<draining, rt>>

\* the hub switches into the main greenlet waiting in the joinall of kill
\* once the queue holds something; when joinall returns the loop of kill
\* goes on: it returns when the set is empty and makes another pass otherwise
SetKillWake ==
  /\ HubIdle
  /\ mainpc.at = "joinall"
  /\ mainpc.op = "setkill"
  /\ mainpc.q # <<>>
  /\ LET pc == joinall_loop(mainpc, G)
     IN IF pc.at = "joinall"
        THEN /\ mainpc' = pc
             /\ UNCHANGED <<G, hubq, timers, cur, poolvars>>
        ELSE IF greenlets = {}
        THEN /\ mainpc' = setkill_done
             /\ cur' = MAIN
             /\ UNCHANGED <<G, hubq, timers, poolvars>>
        ELSE \E order \in Orders(greenlets) :
               LET r == setkill_pass(World, PoolState, mainpc.pol, order)
               IN Commit(r.w) /\ CommitPool(r.p) /\ mainpc' = r.pc
  /\ UNCHANGED <<draining, ops, rt>>

\* GreenletSet.add called by a task that runs
TaskAdd(u) ==
  /\ cur \in Tasks
  /\ ops < MaxOps
  /\ ops' = ops + 1
  /\ Commit(add_link(World, u))
  /\ CommitPool(add(PoolState, u))
  /\ UNCHANGED <<draining, mainpc, rt>>

\* GreenletSet.killone(greenlet, exception, block=False)
PoolKillone(t, e) ==
  /\ cur = MAIN
  /\ ops < MaxOps
  /\ ops' = ops + 1
  /\ IF t \notin dying /\ t \in greenlets
     THEN Commit(kill(World, t, e)) /\ dying' = dying \cup {t}
     ELSE UNCHANGED <<G, hubq, timers, cur, dying>>
  /\ UNCHANGED <<greenlets, empty_event, size, counter, draining, mainpc, rt>>

\* GreenletSet.join(): wait for _empty_event; the call has returned when
\* mainpc.op is "joined"
PoolJoin ==
  /\ cur = MAIN
  /\ mainpc.op # "joined"
  /\ IF empty_event
     THEN mainpc' = [mainpc EXCEPT !.op = "joined"] /\ cur' = cur
     ELSE mainpc' = MainAt("join") /\ cur' = HUB
  /\ UNCHANGED <<G, hubq, timers, draining, ops, poolvars, rt>>

JoinWake ==
  /\ HubIdle
  /\ mainpc.at = "join"
  /\ empty_event
  /\ mainpc' = [MainAt("run") EXCEPT !.op = "joined"]
  /\ cur' = MAIN
  /\ UNCHANGED <<G, hubq, timers, draining, ops, poolvars, rt>>

\* GreenletSet.join(timeout, raise_error): what the call does once the wait
\* on _empty_event is over.  With raise_error it goes through the snapshot
\* S and raises greenlet.exception of a task that is not successful(), which
\* for a task that has no stored exception is "raise None": a TypeError
join_results(S, re) ==
  LET bad == {t \in S : ~successful(G[t])}
  IN IF re /\ bad # {}
     THEN {<<"raise", IF exception(G[t]) = "None" THEN "TypeError" ELSE exception(G[t])>> :
             t \in bad}
     ELSE {<<"return", "None">>}

JoinFinished(S, re, via, out) ==
  [MainAt("run") EXCEPT !.op = "setjoin", !.S = S, !.re = re, !.via = via,
                        !.pol = out[1], !.val = out[2]]

\* join(timeout, raise_error=re) called by the main greenlet; own says
\* whether a timeout was given.  The snapshot is taken before the wait.
SetJoin(re, own) ==
  /\ cur = MAIN
  /\ ops < MaxOps
  /\ ops' = ops + 1
  /\ IF empty_event
     THEN /\ \E out \in join_results(greenlets, re) :
               mainpc' = JoinFinished(greenlets, re, "event", out)
          /\ cur' = cur
     ELSE /\ mainpc' = [MainAt("setjoin") EXCEPT !.S = greenlets, !.re = re, !.own = own]
          /\ cur' = HUB
  /\ UNCHANGED <<G, hubq, timers, draining, poolvars, rt>>

\* the wait ends: _empty_event was set (via "event"), or the timeout of the
\* wait expired (via "own") and Event.wait returns
SetJoinWake(via) ==
  /\ HubIdle
  /\ mainpc.at = "setjoin"
  /\ IF via = "event" THEN empty_event ELSE mainpc.own
  /\ \E out \in join_results(mainpc.S, mainpc.re) :
       mainpc' = JoinFinished(mainpc.S, mainpc.re, via, out)
  /\ cur' = MAIN
  /\ UNCHANGED <<G, hubq, timers, draining, ops, poolvars, rt>>

\* ---------------------------------------- the scenario of a full pool
\* the tasks of the scenario: one more than the pool admits
ScenTasks == 1..(ScenSize + 1)

\* a body that blocks before it finishes: it suspends once (a sleep) ...
ScenBlock(t) ==
  /\ cur = t
  /\ ~G[t].slept
  /\ Commit([World EXCEPT !.G[t].slept = TRUE, !.cur = HUB])
  /\ UNCHANGED <<draining, mainpc, ops, poolvars, rt>>

\* ... and ends when it is resumed
ScenEnd(t, end) == G[t].slept /\ TaskEnd(t, end)

\* the main greenlet spawns the tasks one after the other ...
ScenSpawn(t) ==
  /\ \A u \in ScenTasks : u < t => ~Fresh(u)
  /\ Fresh(t)
  /\ Admission("spawn", t, "none")

\* ... and then joins the pool
ScenJoin == (\A u \in ScenTasks : ~Fresh(u)) /\ PoolJoin

\* ------------------------------------------------------- specifications

InitTasks ==
  /\ G = [t \in Tasks |-> NewGreenlet]
  /\ hubq = <<>>
  /\ timers = {}
  /\ cur = MAIN
  /\ draining = 0
  /\ mainpc = MainAt("run")
  /\ ops = 0
  /\ rt = RtIdle

InitPool(n) ==
  /\ greenlets = {}
  /\ dying = {}
  /\ empty_event = TRUE
  /\ size = n
  /\ counter = n

\* GreenletSet(S0): the tasks of the collection are the members, discard is
\* linked to each, and _empty_event is set
InitSet(S0) ==
  /\ G = [t \in Tasks |->
            IF t \in S0
            THEN [Register(NewGreenlet, Lnk("raw", DISCARD))
                    EXCEPT !.links = {Lnk("raw", DISCARD)}]
            ELSE NewGreenlet]
  /\ hubq = <<>>
  /\ timers = {}
  /\ cur = MAIN
  /\ draining = 0
  /\ mainpc = MainAt("run")
  /\ ops = 0
  /\ rt = RtIdle
  /\ greenlets = S0
  /\ dying = {}
  /\ empty_event = TRUE
  /\ size = NOSIZE
  /\ counter = 0

\* the steps of the hub that start, resume and kill tasks, of the tasks'
\* bodies and of the main greenlet
RunTasks ==
  \/ DispatchSwitch
  \/ \E react \in Reacts : DispatchKill(react)
  \/ \E t \in Tasks : HubWake(t)
  \/ HubWakeMain
  \/ MainYield
  \/ \E t \in Tasks : \E end \in Ends : TaskEnd(t, end)
  \/ \E t \in Tasks : TaskBlock(t)

\* the hub inside _notify_links
RunNotify ==
  \/ NotifyBegin
  \/ \E t \in Tasks : \E l \in G[t].links : \E react \in Reacts : NotifyStep(t, l, react)
  \/ NotifyEnd

\* start, start_later and kill, called on the tasks
ApiLife ==
  \/ \E t \in ApiTasks : Start(t)
  \/ \E t \in ApiTasks : StartLater(t)
  \/ \E t \in ApiTasks : \E e \in KillArgs : Kill(t, e)

\* the task whose links are observed: the first one
Observed == CHOOSE t \in ApiTasks : \A u \in ApiTasks : t <= u

\* links registered on the observed task, for a user callable and for the
\* other tasks, while the tasks are started and killed
ApiLinks ==
  \/ \E t \in ApiTasks : Start(t)
  \/ \E t \in ApiTasks : Kill(t, "GreenletExit")
  \/ Rawlink(Observed, CB)
  \/ \E r \in ApiTasks \cup {CB} : \E policy \in Policies : \E react \in Reacts :
       Link(Observed, r, policy, react)

\* registering and unlinking on the observed task, which may be killed
\* before it starts
ApiUnlink ==
  \/ Kill(Observed, "GreenletExit")
  \/ Rawlink(Observed, CB)
  \/ \E r \in ApiTasks \cup {CB} : \E policy \in Policies : \E react \in Reacts :
       Link(Observed, r, policy, react)
  \/ \E r \in ApiTasks \cup {CB} : Unlink(Observed, r)

RunUnlink ==
  \/ \E react \in Reacts : DispatchKill(react)
  \/ HubWakeMain
  \/ MainYield
  \/ RunNotify

Init == InitTasks /\ InitPool(0)

Next == ApiLife \/ RunTasks \/ \E t \in Tasks : FireTimer(t)

\* the task lifecycle
Spec == Init /\ [][Next]_vars

NextLinks == ApiLinks \/ RunTasks \/ RunNotify

\* the link registry and its dispatcher
SpecLinks == Init /\ [][NextLinks]_vars

\* links registered on the observed task and never unlinked: a user callable
\* by rawlink, the other tasks and the caller by link
ApiLive ==
  \/ \E t \in ApiTasks : Start(t)
  \/ Kill(Observed, "GreenletExit")
  \/ Rawlink(Observed, CB)
  \/ \E r \in ApiTasks : \E react \in Reacts : Link(Observed, r, "", react)

NextLive == ApiLive \/ RunTasks \/ RunNotify

\* the hub runs the callback of the event at the head of its queue
HubDispatch ==
  \/ DispatchSwitch
  \/ \E react \in Reacts : DispatchKill(react)
  \/ RunNotify

\* the greenlet that runs switches to the hub, or ends
Yield ==
  \/ MainYield
  \/ \E t \in Tasks : TaskBlock(t)
  \/ \E t \in Tasks : \E end \in Ends : TaskEnd(t, end)

\* the link registry under a fair hub: a greenlet that runs gets to its next
\* switch, and the hub, each time it gets control with events queued, does not
\* forever wake sleepers instead of running the callback at the head
SpecLive == Init /\ [][NextLive]_vars /\ WF_vars(Yield) /\ SF_vars(HubDispatch)

NextUnlink == ApiUnlink \/ RunUnlink

\* link registration and unlink
SpecUnlink == Init /\ [][NextUnlink]_vars

\* get and join of the main greenlet on tasks that are started and killed
ApiWait ==
  \/ \E t \in ApiTasks : Start(t)
  \/ \E t \in ApiTasks : \E e \in KillArgs : Kill(t, e)
  \/ \E op \in WaitOps : \E t \in ApiTasks : \E own, outer \in BOOLEAN :
       MainWait(op, t, own, outer)
  \/ \E t \in ApiTasks : MainGetNoBlock(t)

\* get and join of a main greenlet that has linked itself to tasks
ApiAbnormal ==
  \/ \E t \in ApiTasks : Start(t)
  \/ \E t \in ApiTasks : Kill(t, "Error")
  \/ \E t \in ApiTasks : \E react \in Reacts : MainLink(t, react)
  \/ \E op \in WaitOps : \E t \in ApiTasks : \E own, outer \in BOOLEAN :
       MainWait(op, t, own, outer)

NextAbnormal ==
  \/ ApiAbnormal
  \/ \E which \in {"own", "outer"} : WaitTimeout(which)
  \/ RunTasks
  \/ RunNotify

SpecAbnormal == Init /\ [][NextAbnormal]_vars

\* joinall with and without timeouts, by a main greenlet that starts tasks
\* and has linked itself to one; the tasks return or fail
ApiCleanup ==
  \/ \E t \in ApiTasks : cur = MAIN /\ Start(t)
  \/ \E react \in Reacts : MainLink(Observed, react)
  \/ \E S \in SUBSET ApiTasks : \E re, own, outer \in BOOLEAN :
       ~(own /\ outer) /\ JoinallCall(S, re, own, outer)

NextCleanup ==
  \/ ApiCleanup
  \/ \E which \in {"own", "outer"} : JoinallTimeout(which)
  \/ JoinallWake
  \/ DispatchSwitch
  \/ HubWakeMain
  \/ MainYield
  \/ \E t \in Tasks : \E end \in {<<"return", "result">>, <<"error", "Error">>} : TaskEnd(t, end)
  \/ RunNotify

SpecCleanup == Init /\ [][NextCleanup]_vars

NextWait ==
  \/ ApiWait
  \/ \E which \in {"own", "outer"} : WaitTimeout(which)
  \/ RunTasks
  \/ RunNotify

SpecWait == Init /\ [][NextWait]_vars

\* joinall of the main greenlet on tasks that are started and killed
ApiJoinall ==
  \/ \E t \in ApiTasks : Start(t)
  \/ \E t \in ApiTasks : \E e \in KillArgs : Kill(t, e)
  \/ \E S \in SUBSET ApiTasks : \E re \in BOOLEAN : MainJoinall(S, re)

NextJoinall == ApiJoinall \/ JoinallWake \/ RunTasks \/ RunNotify

SpecJoinall == Init /\ [][NextJoinall]_vars

\* killall of lists of tasks started or not, the empty list among them
ApiKillall ==
  \/ \E t \in ApiTasks : Start(t)
  \/ \E t \in ApiTasks : Kill(t, "GreenletExit")
  \/ \E S \in SUBSET ApiTasks : \E lst \in Orders(S) : \E block \in BOOLEAN :
       Killall(lst, "GreenletExit", block)

NextKillall ==
  \/ ApiKillall
  \/ \E react \in Reacts : KillallStep(react)
  \/ JoinallWake
  \/ RunTasks
  \/ RunNotify

SpecKillall == Init /\ [][NextKillall]_vars

\* Greenlet.spawn, called for the tasks of a list in turn
RECURSIVE start_each(_, _)
start_each(w, order) ==
  IF order = <<>> THEN w ELSE start_each(start(w, Head(order)), Tail(order))

\* the tasks of S, lowest first
RECURSIVE Ascending(_)
Ascending(S) ==
  IF S = {} THEN <<>>
  ELSE LET t == CHOOSE x \in S : \A y \in S : x <= y
       IN <<t>> \o Ascending(S \ {t})

\* some of the tasks were spawned (constructed and started), the others were
\* only constructed
InitSpawned ==
  /\ \E S \in SUBSET ApiTasks : \E order \in {Ascending(S)} :
       LET w == start_each([G |-> [t \in Tasks |-> NewGreenlet], hubq |-> <<>>,
                            timers |-> {}, cur |-> MAIN], order)
       IN G = w.G /\ hubq = w.hubq /\ timers = w.timers /\ cur = w.cur
  /\ draining = 0
  /\ mainpc = MainAt("run")
  /\ ops = 0
  /\ rt = RtIdle
  /\ InitPool(0)

\* the main greenlet links tasks to each other with link(receiver): each
\* task to the next one round the ring of tasks, and tasks to the first one
ApiCycle ==
  \E t, r \in ApiTasks :
    /\ r = (t % NT) + 1 \/ r = Observed
    /\ cur = MAIN
    /\ Link(t, r, "", "propagate")

\* the hub runs the callback of the event at the head of its queue
HubCycle == DispatchSwitch \/ RunNotify

NextCycle ==
  \/ ApiCycle
  \/ HubCycle
  \/ \E t \in Tasks : HubWake(t)
  \/ MainYield
  \/ \E t \in Tasks : TaskBlock(t)
  \/ \E t \in Tasks : \E end \in {<<"return", "result">>, <<"error", "Error">>} : TaskEnd(t, end)

\* tasks linked to each other under a fair hub
SpecCycle == InitSpawned /\ [][NextCycle]_vars /\ WF_vars(Yield) /\ SF_vars(HubCycle)

\* the lists of up to NT tasks, repetitions allowed
JoinLists == UNION {[1..n -> ApiTasks] : n \in 0..NT}

\* joinall of lists of tasks not started, scheduled, suspended and dead
ApiJoinList ==
  \/ \E t \in ApiTasks : cur = MAIN /\ Start(t)
  \/ \E lst \in JoinLists : JoinallList(lst)

\* the hub runs the callback of the event at the head of its queue, or
\* switches into the greenlet waiting on a queue that holds an item
HubJoin == DispatchSwitch \/ RunNotify \/ JoinallWake

NextJoinList ==
  \/ ApiJoinList
  \/ HubJoin
  \/ \E t \in Tasks : HubWake(t)
  \/ HubWakeMain
  \/ MainYield
  \/ \E t \in Tasks : TaskBlock(t)
  \/ \E t \in Tasks : \E end \in {<<"return", "result">>, <<"error", "Error">>} : TaskEnd(t, end)

\* joinall of lists under a fair hub
SpecJoinList == Init /\ [][NextJoinList]_vars /\ WF_vars(Yield) /\ SF_vars(HubJoin)

\* blocking killall, with GreenletExit and with another exception, of lists
\* of tasks that are not started, scheduled, suspended in their body or dead
ApiDiehards ==
  \/ \E t \in ApiTasks : cur = MAIN /\ Start(t)
  \/ \E S \in SUBSET ApiTasks : \E lst \in Orders(S) :
       \E e \in {"GreenletExit", "Error"} : Killall(lst, e, TRUE)

NextDiehards ==
  \/ ApiDiehards
  \/ \E react \in Reacts : KillallStep(react)
  \/ JoinallWake
  \/ DispatchSwitch
  \/ HubWakeMain
  \/ MainYield
  \/ \E t \in Tasks : HubWake(t)
  \/ \E t \in Tasks : TaskBlock(t)
  \/ \E t \in Tasks : \E end \in {<<"return", "result">>, <<"error", "Error">>} : TaskEnd(t, end)
  \/ RunNotify

SpecDiehards == Init /\ [][NextDiehards]_vars

\* the pool's API, called by the main greenlet
ApiPool ==
  \/ \E t \in ApiTasks : \E kind \in SpawnKinds : PoolSpawn(t, kind)
  \/ \E t \in ApiTasks : PoolStart(t)
  \/ \E t \in ApiTasks : PoolAdd(t)
  \/ \E t \in ApiTasks : PoolDiscard(t)
  \/ PoolKill("GreenletExit")
  \/ \E t \in ApiTasks : PoolKillone(t, "GreenletExit")
  \/ PoolJoin
  \/ \E t \in ApiTasks : Start(t)

InitAnyPool == InitTasks /\ \E n \in 1..MaxSize : InitPool(n)

NextPool == ApiPool \/ SemWake \/ JoinWake \/ RunTasks \/ RunNotify

\* a pool of any size up to MaxSize
SpecPool == InitAnyPool /\ [][NextPool]_vars

\* a GreenletSet constructed without or with a collection of tasks
InitAnySet == \E S0 \in SUBSET ApiTasks : InitSet(S0)

NextSet == ApiPool \/ JoinWake \/ RunTasks \/ RunNotify

SpecSet == InitAnySet /\ [][NextSet]_vars

\* admissions to a pool, of new tasks and of tasks started or not
ApiAdmit ==
  \/ \E t \in ApiTasks : Start(t)
  \/ \E t \in ApiTasks : \E kind \in SpawnKinds : \E fails \in BOOLEAN :
       NotedSpawn(t, kind, fails)
  \/ \E t \in ApiTasks : NotedStart(t)
  \/ \E t \in ApiTasks : PoolKillone(t, "GreenletExit")

NextAdmit == ApiAdmit \/ SemWake \/ RunTasks \/ RunNotify

SpecAdmit == InitAnyPool /\ [][NextAdmit]_vars

\* a pool of size 0: admissions, wait_available and discard
ApiZero ==
  \/ \E t \in ApiTasks : \E kind \in SpawnKinds : NotedSpawn(t, kind, FALSE)
  \/ \E t \in ApiTasks : NotedStart(t)
  \/ \E t \in ApiTasks : PoolDiscard(t)
  \/ WaitAvailable
  \/ \E t \in ApiTasks : PoolKillone(t, "GreenletExit")

InitZero == InitTasks /\ InitPool(0)

NextZero == ApiZero \/ SemWake \/ WaitWake \/ RunTasks \/ RunNotify

SpecZero == InitZero /\ [][NextZero]_vars

\* add, discard, kill and killone on a GreenletSet whose members are started
\* and end, and to which running tasks add tasks
ApiSetKill ==
  \/ \E t \in ApiTasks : cur = MAIN /\ Start(t)
  \/ \E t \in ApiTasks : PoolAdd(t)
  \/ \E t \in ApiTasks : TaskAdd(t)
  \/ \E t \in ApiTasks : PoolDiscard(t)
  \/ PoolKill("GreenletExit")
  \/ PoolKillBlock("GreenletExit")
  \/ \E t \in ApiTasks : PoolKillone(t, "GreenletExit")

NextSetKill == ApiSetKill \/ SetKillWake \/ RunTasks \/ RunNotify

\* a GreenletSet constructed empty or with the observed task
InitSmallSet == \E S0 \in {{}, {Observed}} : InitSet(S0)

SpecSetKill == InitSmallSet /\ [][NextSetKill]_vars

\* join with timeout and raise_error on a GreenletSet whose tasks are
\* spawned and killed
ApiSetJoin ==
  \/ \E t \in ApiTasks : PoolSpawn(t, "none")
  \/ \E t \in ApiTasks : \E e \in KillArgs : PoolKillone(t, e)
  \/ \E re, own \in BOOLEAN : SetJoin(re, own)

NextSetJoin ==
  \/ ApiSetJoin
  \/ \E via \in {"event", "own"} : SetJoinWake(via)
  \/ RunTasks
  \/ RunNotify

SpecSetJoin == InitSet({}) /\ [][NextSetJoin]_vars

\* Pool(ScenSize), then one spawn more than the pool admits, then join
InitScenario == InitTasks /\ InitPool(ScenSize)

RunScenario ==
  \/ DispatchSwitch
  \/ \E t \in ScenTasks : HubWake(t)
  \/ \E t \in ScenTasks : ScenBlock(t)
  \/ \E t \in ScenTasks : \E end \in Ends : ScenEnd(t, end)

NextScenario ==
  \/ \E t \in ScenTasks : ScenSpawn(t)
  \/ ScenJoin
  \/ SemWake
  \/ JoinWake
  \/ RunScenario
  \/ RunNotify

\* the hub runs its loop while an event, a timer or a wake-up is pending, and
\* a greenlet switched into runs to its next switch
SpecScenario == InitScenario /\ [][NextScenario]_vars /\ WF_vars(NextScenario)

\* ================================================================ claims
\* ---- C4 (specification Spec)
\* scen = "startkill": t was constructed, start() was called, then kill()
\* with the default exception while the start event was still queued;
\* khit # "none": the hub has dispatched both events
KillAfterStartDone(t) == G[t].scen = "startkill" /\ G[t].khit # "none"

\* C4, as claimed: after t = Task(fn); t.start(); t.kill() and the hub's
\* dispatch of its events, t is dead and successful, its value is the
\* task-exit signal instance and get() returns it, whatever fn does
C4_KillAfterStartAnyFn ==
  \A t \in Tasks : KillAfterStartDone(t) =>
    /\ G[t].dead
    /\ successful(G[t])
    /\ G[t].value = "GreenletExit()"
    /\ get(G[t]) = <<"return", "GreenletExit()">>

\* C4, amended: the start event is dispatched first, so the kill never finds
\* t unstarted; when the kill finds fn suspended and fn lets the signal
\* propagate, t is dead and successful with the signal instance as value and
\* as the result of get(); when fn had finished before, the kill changes
\* nothing and t is dead with the outcome of fn
C4_KillAfterStartSuspended ==
  \A t \in Tasks : KillAfterStartDone(t) =>
    /\ G[t].khit # "unstarted"
    /\ G[t].khit = "propagated" =>
         /\ G[t].dead
         /\ successful(G[t])
         /\ G[t].value = "GreenletExit()"
         /\ get(G[t]) = <<"return", "GreenletExit()">>
    /\ G[t].khit = "dead" => G[t].dead /\ G[t].cause \in {"return", "exit", "error"}

C4_Witness ==
  \E t \in Tasks : KillAfterStartDone(t) /\ G[t].khit = "propagated"

\* ---- C5 (specification Spec)
\* C5: a task whose termination was caused by the task-exit signal (raised by
\* its body, injected while suspended, or thrown before it ever ran) is
\* successful, with exception null and the signal instance as value
C5_ExitSignalIsSuccess ==
  \A t \in Tasks : G[t].cause = "exit" =>
    /\ successful(G[t])
    /\ exception(G[t]) = "None"
    /\ G[t].value = "GreenletExit()"

\* ---- C8 (specification Spec)
\* C8: a call of start()/start_later() on a task on which one was already
\* made fails its assertion: no task has two calls that passed it
C8_SecondStartAsserts ==
  \A t \in Tasks : G[t].nstarts <= 1

\* ---- C9 (specification Spec)
\* C9: a task in a terminal state no longer retains run_fn, args and kwargs
C9_RunReleased ==
  \A t \in Tasks : G[t].dead => ~G[t].run

\* ---- C6 (specification SpecLinks)
\* C6: a registered link is never taken out of the link set by the
\* dispatcher without being called (every target registered and neither
\* called nor unlinked is still in the set), and is never called twice for
\* one registration
C6_LinkInvokedOnce ==
  \A t \in Tasks :
    /\ G[t].regd \subseteq TargetsOf(G[t].links)
    /\ \A x \in Targets : G[t].calls[x] <= 1

\* a drain that called two links has ended
C6_Witness ==
  \E t \in Tasks :
    /\ Cardinality({x \in Targets : G[t].calls[x] = 1}) >= 2
    /\ G[t].links = {}
    /\ ~G[t].notifier

\* ---- C7 (specification SpecLinks)
\* the _notify_links events of t that are queued or being run
NotifyOutstanding(t) ==
  Cardinality({i \in 1..Len(hubq) : hubq[i] = Ev("_notify_links", t, "None")})
    + (IF draining = t THEN 1 ELSE 0)

\* C7: at most one _notify_links event is outstanding for a task, and one is
\* exactly when its notifier handle is set
C7_OneNotifyOutstanding ==
  \A t \in Tasks : NotifyOutstanding(t) = (IF G[t].notifier THEN 1 ELSE 0)

\* a link was registered on t from inside a callback of t's drain
C7_Witness ==
  /\ rt.st = "reg"
  /\ rt.indrain
  /\ draining = rt.t
  /\ G[rt.t].links # {}

\* ---- C10 (specification SpecUnlink)
\* C10, as claimed: registering a link for a target and then unlinking the
\* target leaves the link set as large as before the registration, whatever
\* it held
C10_RoundTripAnyContent ==
  rt.st = "done" => rt.after = rt.before

\* C10, amended: the size is as before when no entry equal by target was
\* registered before; when one was, the registration coalesces with it and
\* unlink removes it, so the set is one smaller
C10_RoundTrip ==
  rt.st = "done" =>
    IF rt.had THEN rt.after = rt.before - 1 ELSE rt.after = rt.before

\* a round trip on a non-empty set, for a target registered through a wrapper
C10_Witness ==
  /\ rt.st = "done"
  /\ ~rt.had
  /\ rt.before > 0
  /\ rt.target \in Tasks

\* ---------------------------------------------------------------- pool
\* C1: in every reachable state of a Pool of capacity N, len(pool) <= N and
\* free_count() == N - len(pool).
C1_PoolInvariant ==
  /\ Cardinality(greenlets) <= size
  /\ free_count = size - Cardinality(greenlets)

\* C2: whenever no admission call is in progress, the free permits of the
\* semaphore equal free_count() = max(0, size - len(pool)); in particular
\* they never exceed size, whatever task discard is called for.
C2_PermitsNeverExceedSize ==
  mainpc.at # "acquire" => counter <= size

\* the members that are started and not terminated
Running == {t \in greenlets : G[t].started /\ ~G[t].dead}

\* the last task spawned in the scenario, and the ones before it
LastSpawned == ScenSize + 1

Discarded(t) == G[t].dead /\ t \notin greenlets

Joined == mainpc.op = "joined"

C3_Safe ==
  /\ Cardinality(Running) <= ScenSize
  /\ Cardinality(Running) = ScenSize => free_count = 0
  /\ G[LastSpawned].nstarts > 0 => \E u \in ScenTasks \ {LastSpawned} : Discarded(u)
  /\ Joined => (\A t \in ScenTasks : G[t].dead) /\ free_count = ScenSize

\* C3: a Pool of size ScenSize and ScenSize + 1 spawns of blocking tasks: at
\* most ScenSize members are running at once, free_count() is 0 while
\* ScenSize are running, the last task is not started before one of the
\* others was discarded, and in the end all have terminated, join() has
\* returned and free_count() is ScenSize.
C3_FullPool == []C3_Safe /\ <>Joined

\* join() has returned after the last task, admitted late, has terminated
C3_Witness ==
  /\ Joined
  /\ \A t \in ScenTasks : G[t].dead /\ G[t].slept
  /\ free_count = ScenSize

\* ---- C11 (specification SpecLinks)
\* C11: a receiver registered on a source only through link_value never has
\* a LinkedExited thrown into it on account of the source when the source
\* terminated unsuccessfully: every receiver of such a throw was registered
\* with link() or link_exception()
C11_ValueLinkSilentOnFailure ==
  \A t \in Tasks : \A r \in Tasks \cup {MAIN} :
    <<r, FALSE>> \in G[t].lthrown => r \in G[t].nonval

\* the link_value link of a receiver was called for a source that failed
C11_Witness ==
  \E t \in Tasks : \E r \in Tasks :
    /\ G[t].dead /\ ~successful(G[t])
    /\ G[t].calls[r] = 1
    /\ r \notin G[t].nonval
    /\ <<r, FALSE>> \notin G[t].lthrown

\* ---- C12 (specification SpecWait)
\* the main greenlet is back from a call of op on a task
Returned(op) == mainpc.at = "run" /\ mainpc.op = op /\ mainpc.via # ""

\* C12: get() on a task that has terminated returns its value when it was
\* successful and raises its stored exception otherwise; join() returns None
\* when the task completes and when its own timeout expires, never raises the
\* stored exception, and raises a Timeout that is not its own
C12_GetRaisesJoinDoesNot ==
  LET g == G[mainpc.g]
  IN /\ Returned("get") /\ mainpc.via \in {"ready", "link"} =>
          /\ ready(g)
          /\ IF successful(g)
             THEN mainpc.pol = "return" /\ mainpc.val = g.value
             ELSE mainpc.pol = "raise" /\ mainpc.val = g.exc
     /\ Returned("join") =>
          IF mainpc.via = "outer"
          THEN mainpc.pol = "raise" /\ mainpc.val = "OuterTimeout"
          ELSE mainpc.pol = "return" /\ mainpc.val = "None"

\* join's own timeout has expired on a task that is still not ready
C12_Witness ==
  /\ Returned("join")
  /\ mainpc.via = "own"
  /\ ~ready(G[mainpc.g])
  /\ mainpc.pol = "return"

\* ---- C13 (specification SpecJoinall)
\* C13: joinall(tasks, raise_error=True) raises the stored exception of a
\* failed task as soon as that task is dequeued (every task dequeued while
\* the call goes on was successful, and what it raises is the exception of
\* the task dequeued last, which failed); joinall(tasks, raise_error=False)
\* without timeout raises nothing and returns only when every task is ready
C13_Joinall ==
  /\ mainpc.op = "joinall" /\ mainpc.re =>
       /\ mainpc.at = "joinall" => \A t \in mainpc.got : successful(G[t])
       /\ Returned("joinall") /\ mainpc.pol = "raise" =>
            /\ mainpc.g \in mainpc.S
            /\ ~successful(G[mainpc.g])
            /\ mainpc.val = G[mainpc.g].exc
            /\ \A t \in mainpc.got \ {mainpc.g} : successful(G[t])
       /\ Returned("joinall") /\ mainpc.pol = "return" =>
            \A t \in mainpc.S : ready(G[t]) /\ successful(G[t])
  /\ Returned("joinall") /\ ~mainpc.re =>
       /\ mainpc.pol = "return"
       /\ \A t \in mainpc.S : ready(G[t])

\* joinall without raise_error has returned for two tasks, one of them failed
C13_Witness ==
  /\ Returned("joinall")
  /\ ~mainpc.re
  /\ Cardinality(mainpc.S) >= 2
  /\ \E t \in mainpc.S : ~successful(G[t])

\* ---- C14 (specification SpecSet)
\* C14: the _empty_event of a GreenletSet is set if and only if it has no
\* member, in every state from its construction on
C14_EmptyEventIffEmpty ==
  empty_event <=> greenlets = {}

\* ---- C15 (specification SpecSetJoin)
\* C15: join(timeout, raise_error=True) of a set raises only the stored
\* exception of a task of the snapshot that has failed; when all of them
\* succeeded, or the wait timed out with tasks still running, it raises no
\* other error
C15_JoinRaisesOnlyFailures ==
  Returned("setjoin") /\ mainpc.pol = "raise" =>
    \E t \in mainpc.S :
      /\ ready(G[t])
      /\ ~successful(G[t])
      /\ mainpc.val = G[t].exc

\* ---- C16 (specification SpecAdmit)
\* C16: an admission (Pool.start, Pool.spawn*) in which construction,
\* scheduling, linking or add raises after the permit was acquired releases
\* the permit before the exception propagates: the permits and the members
\* are as they were before the call
C16_FailedAdmissionRestores ==
  mainpc.at = "run" /\ mainpc.note /\ mainpc.pol = "raise" => mainpc.val = "same"

\* ---- C17 (specification SpecZero)
\* C17: in a Pool of size 0 no call of start or spawn* ever returns with its
\* task admitted, full() is true in every reachable state, and no call of
\* wait_available ever returns
C17_ZeroPoolAdmitsNothing ==
  size = 0 =>
    /\ ~(mainpc.at = "run" /\ mainpc.note /\ mainpc.pol = "return")
    /\ full
    /\ ~(mainpc.at = "run" /\ mainpc.op = "wait_available")

\* ---- C18 (specification SpecKillall)
\* C18: killall called on an empty collection returns without suspending the
\* calling task, with block=False and with block=True
C18_KillallEmptyReturnsAtOnce ==
  mainpc.op = "killall" /\ mainpc.S = {} => mainpc.at = "run" /\ mainpc.via = "ready"

\* ---- C19 (specification SpecLive)
\* C19: when a task is ready and its link set holds links, registered before
\* it terminated or after, and nothing unlinks them, then under a fair hub
\* every one of them is eventually called, and the link set is eventually
\* empty with the notifier handle cleared
C19_LinksEventuallyNotified ==
  \A t \in Tasks :
    (ready(G[t]) /\ G[t].links # {})
      ~> (G[t].regd = {} /\ G[t].links = {} /\ ~G[t].notifier)

\* a task has ended, its links were called and its drain is over
C19_Witness ==
  \E t \in Tasks :
    /\ G[t].dead
    /\ G[t].cause # "none"
    /\ \E x \in Targets : G[t].calls[x] = 1
    /\ G[t].regd = {}
    /\ G[t].links = {}
    /\ ~G[t].notifier
    /\ NoEventFor(hubq, t)

\* ---- C20 (specification Spec)
\* C20: a task's start handle is set only while the task is scheduled: it is
\* null whenever the task is running or has ended (completed, failed, killed
\* before it started), under any sequence of start, start_later, hub
\* dispatch, throw and kill
C20_StartHandleOnlyWhileScheduled ==
  \A t \in Tasks : G[t].start_event # "None" => ~G[t].started /\ ~G[t].dead

\* ---- C21 (specification Spec)
\* C21: run is entered at most once per task, and once a task is dead
\* (completed, failed or killed before it started) no step - start,
\* start_later, throw, kill or a dispatch of the hub - enters run or changes
\* the recorded value or exception
C21_ForwardOnly ==
  [][\A t \in Tasks :
       /\ G'[t].nruns <= 1
       /\ G[t].dead =>
            /\ G'[t].dead
            /\ G'[t].nruns = G[t].nruns
            /\ G'[t].value = G[t].value
            /\ G'[t].exc = G[t].exc]_vars

\* a dead task was started again and the hub has dispatched the start event:
\* nothing ran
C21_Witness ==
  \E t \in Tasks :
    /\ G[t].dead
    /\ G[t].nstarts >= 2
    /\ G[t].start_event # "None"
    /\ NoEventFor(hubq, t)
    /\ t \notin timers

\* ---- C22 (specification SpecAbnormal)
\* C22: the switch a call of get or join has linked is in a task's link set
\* only while the caller waits in that call on that task: once the call was
\* left by a timeout, its own or not, or by another exception raised in the
\* waiting caller, no task holds it, so that no later termination switches
\* into the former waiter
C22_AbnormalExitUnlinks ==
  \A t \in Tasks :
    MAIN_SWITCH \in TargetsOf(G[t].links) => mainpc.at = "wait" /\ mainpc.g = t

\* a LinkedExited was raised in the main greenlet while it waited in get or
\* join on a task that is still not ready
C22_Witness ==
  /\ mainpc.at = "run"
  /\ mainpc.op \in WaitOps
  /\ mainpc.via = "thrown"
  /\ ~ready(G[mainpc.g])

\* ---- C23 (specification SpecCleanup)
\* C23: when joinall has ended by an exception - its own timeout, a timeout
\* that is not its own, raise_error, or an exception raised in the waiting
\* caller - put is linked to no task of the collection; the timeout joinall
\* started makes it return normally and every other exception is raised
C23_JoinallCleanup ==
  /\ mainpc.op = "joinall"
  /\ mainpc.at \in {"run", "dead"}
  /\ mainpc.via \in {"own", "outer", "raise", "thrown"}
  => /\ \A t \in mainpc.S : PUT \notin TargetsOf(G[t].links)
     /\ mainpc.pol = (IF mainpc.via = "own" THEN "return" ELSE "raise")

\* joinall's own timeout has expired with a task of the list still not ready
C23_Witness ==
  /\ Returned("joinall")
  /\ mainpc.via = "own"
  /\ Cardinality(mainpc.S) >= 2
  /\ \E t \in mainpc.S : ~ready(G[t])

\* ---- C24 (specification SpecSetKill)
\* C24: in every reachable state of a GreenletSet the tasks in dying are
\* members, under add, discard, kill, killone and the members' terminations
C24_DyingAreMembers == dying \subseteq greenlets

\* a member that kill had put in dying has ended and was discarded
C24_Witness ==
  \E t \in Tasks :
    /\ G[t].khit # "none"
    /\ G[t].dead
    /\ G[t].calls[DISCARD] = 1
    /\ t \notin greenlets
    /\ t \notin dying

\* ---- C25 (specification SpecSetKill)
\* the _kill events queued for t
KillsQueued(q, t) == Cardinality({i \in 1..Len(q) : q[i].op = "_kill" /\ q[i].g = t})

\* C25: kill(block=True) without timeout returns only when the set is empty,
\* tasks added while it was suspended included; a member that is alive is
\* sent the kill by the step that puts it in dying, once, and a kill is sent
\* to no task that is in dying already or is not a member
C25_KillBlocking ==
  [][/\ mainpc'.op = "setkill" /\ mainpc'.at = "run" /\ mainpc' # mainpc => greenlets' = {}
     /\ \A t \in Tasks :
          /\ t \notin dying /\ t \in dying' /\ ~G[t].dead =>
               KillsQueued(hubq', t) = KillsQueued(hubq, t) + 1
          /\ KillsQueued(hubq', t) > KillsQueued(hubq, t) =>
               /\ KillsQueued(hubq', t) = KillsQueued(hubq, t) + 1
               /\ t \in greenlets
               /\ t \notin dying
               /\ t \in dying']_vars

\* kill has returned after more than one pass: a task added to the set while
\* it was suspended was killed too
C25_Witness ==
  /\ mainpc.op = "setkill"
  /\ mainpc.at = "run"
  /\ greenlets = {}
  /\ Cardinality({t \in Tasks : G[t].khit # "none" /\ G[t].calls[PUT] = 1}) >= 2
  /\ \E t \in Tasks : G[t].nruns = 1 /\ G[t].dead /\ G[t].cause = "return"

\* ---- C26 (specification SpecDiehards)
\* the main greenlet is back from a killall(block=True) without timeout
KillallReturned ==
  mainpc.op = "killall" /\ mainpc.at = "run" /\ mainpc.via \in {"waiter", "done"}

\* C26: killall(tasks, block=True) without timeout returns only after every
\* task of the list is dead: when _killall3 is through the list every task
\* of it is dead or among the diehards, whatever the throws before did, and
\* the caller is back only when the diehards it joined are dead too
C26_KillallBlockingAllDead ==
  /\ KillallReturned => \A t \in mainpc.all : G[t].dead
  /\ (InKillall /\ Head(hubq).op = "_killall3" /\ Head(hubq).lst = <<>> /\ cur = HUB)
       => \A t \in mainpc.all : G[t].dead \/ t \in diehards(Head(hubq), G)

\* killall is back after it joined a diehard, a task that caught the
\* exception thrown into it and ended later
C26_Witness ==
  /\ KillallReturned
  /\ mainpc.via = "done"
  /\ \E t \in mainpc.all : t \in mainpc.got /\ G[t].dead /\ G[t].nruns = 1

\* ---- C27 (specification SpecCycle)
\* the tasks the links of t throw into
LinkedTo(t) == {l.target : l \in {x \in G[t].links : IsGreenletLink(x)}} \cap Tasks

RECURSIVE ReachIn(_, _)
ReachIn(R, n) ==
  IF n = 0 THEN R ELSE ReachIn(R \cup UNION {LinkedTo(u) : u \in R}, n - 1)

\* the tasks a chain of links leads to from t
Reach(t) == ReachIn(LinkedTo(t), Cardinality(Tasks))

\* the tasks on a cycle of links through t
Cycle(t) == IF t \in Reach(t) THEN {u \in Reach(t) : t \in Reach(u)} ELSE {}

\* no _notify_links event is queued or running
NoNotifyPending ==
  /\ draining = 0
  /\ \A i \in 1..Len(hubq) : hubq[i].op # "_notify_links"

\* v was thrown a LinkedExited, caught it and is still alive
Caught(v) ==
  /\ ~G[v].dead
  /\ \E s \in Tasks : \E b \in BOOLEAN : <<v, b>> \in G[s].lthrown

NotifiedOncePerRegistration ==
  \A t \in Tasks : \A x \in Targets : G[t].calls[x] <= 1

\* C27 as stated: once a task on a cycle of links has terminated, the hub
\* reaches a state with no notify event pending in which every task of the
\* cycle is terminated, and no link is called twice for one registration
C27_CycleAllTerminated ==
  /\ \A u \in ApiTasks :
       (ready(G[Observed]) /\ u \in Cycle(Observed)) ~> (NoNotifyPending /\ G[u].dead)
  /\ []NotifiedOncePerRegistration

\* C27: once a task on a cycle of links has terminated, the hub reaches a
\* state with no notify event pending in which every task of the cycle is
\* terminated, unless a task caught the LinkedExited thrown into it and
\* lives on; and no link is called twice for one registration
C27_CycleDrains ==
  /\ \A u \in ApiTasks :
       (ready(G[Observed]) /\ u \in Cycle(Observed))
         ~> (NoNotifyPending /\ (G[u].dead \/ \E v \in ApiTasks : Caught(v)))
  /\ []NotifiedOncePerRegistration

\* two tasks were linked to each other, both are dead, the link of each was
\* called once and nothing is pending
C27_Witness ==
  \E t, u \in ApiTasks :
    /\ t # u
    /\ G[t].dead /\ G[u].dead
    /\ G[t].calls[u] = 1 /\ G[u].calls[t] = 1
    /\ G[t].links = {} /\ G[u].links = {}
    /\ NoNotifyPending

\* ---- C28 (specification SpecJoinList)
\* C28: joinall(tasks) without timeout eventually returns once every task
\* of the list is terminated and its notification was dispatched, whatever
\* the list: one with the same task more than once, one with tasks that
\* were ready at the call
C28_JoinallReturns ==
  (/\ mainpc.op = "joinall"
   /\ mainpc.at = "joinall"
   /\ \A t \in mainpc.S : G[t].dead /\ G[t].links = {} /\ ~G[t].notifier)
    ~> (mainpc.op = "joinall" /\ mainpc.at = "run" /\ mainpc.via = "done")

====
